---- MODULE Spec2Model ----
(***************************************************************************)
(* A model of the three command-line tools of the barcode-generator        *)
(* repository: ean13_generator.py, barcode_generator.py, qr_generator.py. *)
(*                                                                         *)
(* One behaviour of the model is one run of one tool.  The initial state  *)
(* holds the command line (argv); the actions are the steps of main():    *)
(* argument parsing, validation, the call into the encoding library, the  *)
(* file write and the final report.  A raised exception is propagated     *)
(* through the code's handlers inside the step that raises it.            *)
(*                                                                         *)
(* Python strings are sequences of one-character strings.  None and True  *)
(* are the one-element sequences <<"None">> and <<"True">>, which no      *)
(* sequence of single characters equals.  The third-party libraries       *)
(* (python-barcode, treepoem, Pillow, qrcode) are not part of the          *)
(* repository: a call into them either succeeds or raises, chosen          *)
(* nondeterministically.  Runs with --help or --version are not modelled. *)
(***************************************************************************)
EXTENDS Integers, Sequences, FiniteSets, TLC

VARIABLES tool, argv, args, pc, exited, status, stdout, stderr,
          events, calls, writes, result, rgb, options

vars == <<tool, argv, args, pc, exited, status, stdout, stderr,
          events, calls, writes, result, rgb, options>>

(***************************************************************************)
(* Python values                                                           *)
(***************************************************************************)
PyNone == <<"None">>

PyTrue == <<"True">>

\* bool(x) for a string or None: None and '' are falsy.
Truthy(x) == x # PyNone /\ x # <<>>

Digits == {"0", "1", "2", "3", "4", "5", "6", "7", "8", "9"}

UpperChars == <<"A", "B", "C", "D", "E", "F", "G", "H", "I", "J", "K", "L", "M",
                "N", "O", "P", "Q", "R", "S", "T", "U", "V", "W", "X", "Y", "Z">>

LowerChars == <<"a", "b", "c", "d", "e", "f", "g", "h", "i", "j", "k", "l", "m",
                "n", "o", "p", "q", "r", "s", "t", "u", "v", "w", "x", "y", "z">>

DigitChars == <<"0", "1", "2", "3", "4", "5", "6", "7", "8", "9">>

\* The characters in code-point order, as far as sorted() needs them.
OrderedChars == DigitChars \o UpperChars \o LowerChars

Ord(c) == CHOOSE i \in 1..Len(OrderedChars) : OrderedChars[i] = c

LowerChar(c) ==
    IF \E i \in 1..Len(UpperChars) : UpperChars[i] = c
    THEN LowerChars[CHOOSE i \in 1..Len(UpperChars) : UpperChars[i] = c]
    ELSE c

UpperChar(c) ==
    IF \E i \in 1..Len(LowerChars) : LowerChars[i] = c
    THEN UpperChars[CHOOSE i \in 1..Len(LowerChars) : LowerChars[i] = c]
    ELSE c

\* str.lower(), str.upper()
lower(s) == [i \in 1..Len(s) |-> LowerChar(s[i])]

upper(s) == [i \in 1..Len(s) |-> UpperChar(s[i])]

\* str.isdigit(): non-empty and every character a digit.
isdigit(s) == Len(s) > 0 /\ \A i \in 1..Len(s) : s[i] \in Digits

startswith(s, p) == Len(s) >= Len(p) /\ SubSeq(s, 1, Len(p)) = p

endswith(s, p) == Len(s) >= Len(p) /\ SubSeq(s, Len(s) - Len(p) + 1, Len(s)) = p

IsSpace(c) == c = " "

RECURSIVE lstrip(_)
lstrip(s) == IF s # <<>> /\ IsSpace(Head(s)) THEN lstrip(Tail(s)) ELSE s

RECURSIVE rstrip(_)
rstrip(s) ==
    IF s # <<>> /\ IsSpace(s[Len(s)]) THEN rstrip(SubSeq(s, 1, Len(s) - 1)) ELSE s

\* str.strip()
strip(s) == rstrip(lstrip(s))

\* sep in s, for a one-character sep
Contains(s, c) == \E i \in 1..Len(s) : s[i] = c

\* s.find(c): the first index of c (1-based), 0 when absent
Find(s, c) ==
    IF Contains(s, c)
    THEN CHOOSE i \in 1..Len(s) : s[i] = c /\ \A j \in 1..(i - 1) : s[j] # c
    ELSE 0

\* s.rfind(c): the last index of c (1-based), 0 when absent
RFind(s, c) ==
    IF Contains(s, c)
    THEN CHOOSE i \in 1..Len(s) : s[i] = c /\ \A j \in (i + 1)..Len(s) : s[j] # c
    ELSE 0

\* s.split(c): always at least one item
RECURSIVE split(_, _)
split(s, c) ==
    IF ~Contains(s, c) THEN <<s>>
    ELSE <<SubSeq(s, 1, Find(s, c) - 1)>> \o split(SubSeq(s, Find(s, c) + 1, Len(s)), c)

\* s.split(c, 1) for s containing c: the text before and after the first c
split1(s, c) == <<SubSeq(s, 1, Find(s, c) - 1), SubSeq(s, Find(s, c) + 1, Len(s))>>

\* sep.join(items)
RECURSIVE join(_, _)
join(sep, items) ==
    IF items = <<>> THEN <<>>
    ELSE IF Len(items) = 1 THEN items[1]
    ELSE items[1] \o sep \o join(sep, Tail(items))

\* a < b for strings, by code point
RECURSIVE StrLess(_, _)
StrLess(a, b) ==
    IF b = <<>> THEN FALSE
    ELSE IF a = <<>> THEN TRUE
    ELSE IF Head(a) = Head(b) THEN StrLess(Tail(a), Tail(b))
    ELSE Ord(Head(a)) < Ord(Head(b))

\* sorted(S) for a set of strings
RECURSIVE sorted(_)
sorted(S) ==
    IF S = {} THEN <<>>
    ELSE LET m == CHOOSE x \in S : \A y \in S \ {x} : StrLess(x, y)
         IN <<m>> \o sorted(S \ {m})

\* All strings over an alphabet of length at most n
StringsUpTo(alphabet, n) == UNION {[1..k -> alphabet] : k \in 0..n}

(***************************************************************************)
(* pathlib, for names without a path separator                             *)
(***************************************************************************)
\* str(Path(s)): the empty path is '.'
PathStr(s) == IF s = <<>> THEN <<".">> ELSE s

\* Path(s).name
PathName(s) == IF s = <<>> \/ s = <<".">> THEN <<>> ELSE s

\* Path(s).suffix: from the last dot, unless that dot is first or last
PathSuffix(s) ==
    LET name == PathName(s)
        i == RFind(name, ".")
    IN IF 1 < i /\ i < Len(name) THEN SubSeq(name, i, Len(name)) ELSE <<>>

\* Path(s).with_suffix(suffix): ValueError for an empty name
with_suffix(s, suffix) ==
    LET name == PathName(s)
        old == PathSuffix(s)
    IN IF name = <<>>
       THEN [ok |-> FALSE,
             exc |-> [type |-> "ValueError", msg |-> <<"PosixPath('.') has an empty name">>]]
       ELSE [ok |-> TRUE,
             path |-> IF old = <<>> THEN name \o suffix
                      ELSE SubSeq(name, 1, Len(name) - Len(old)) \o suffix]

(***************************************************************************)
(* Exceptions and the process                                              *)
(***************************************************************************)
ValueError(msg) == [type |-> "ValueError", msg |-> msg]

Exception(msg) == [type |-> "Exception", msg |-> msg]

\* What a failing library call raises: a ValueError or another exception.
LibraryErrors == {ValueError(<<"library error">>), Exception(<<"library error">>)}

\* The outcomes of a library call: it returns, or raises one of LibraryErrors.
LibraryOutcomes == {[ok |-> TRUE]} \cup {[ok |-> FALSE, exc |-> e] : e \in LibraryErrors}

\* sys.exit(code) after printing a line to standard error
ExitWithError(line, code) ==
    /\ stderr' = Append(stderr, line)
    /\ status' = code
    /\ exited' = TRUE
    /\ pc' = "exited"

\* A variant of main's handlers that prints the error and ends with status 0
MainExcept_status_0(e) == ExitWithError(<<"Error: ">> \o e.msg, 0)

\* main's handlers: print(f"Error: {e}", file=sys.stderr); sys.exit(1)
MainExcept(e) == ExitWithError(<<"Error: ">> \o e.msg, 1)

\* argparse's parser.error(message): usage and message on stderr, exit status 2
ParserError(message) == ExitWithError(<<"usage: ", "error: ">> \o message, 2)

\* The state of a run before main() starts
Start(t, a) ==
    /\ tool = t
    /\ argv = a
    /\ args = [parsed |-> FALSE]
    /\ pc = "start"
    /\ exited = FALSE
    /\ status = 0
    /\ stdout = <<>>
    /\ stderr = <<>>
    /\ events = <<>>
    /\ calls = <<>>
    /\ writes = <<>>
    /\ result = PyNone
    /\ rgb = FALSE
    /\ options = <<>>

(***************************************************************************)
(* ean13_generator.py                                                      *)
(***************************************************************************)
EanLen == 12

EanFormatChoices == {<<"s", "v", "g">>, <<"p", "n", "g">>}

EanDefaultOutput == <<"b", "a", "r", "c", "o", "d", "e">>

EanDefaultFormat == <<"s", "v", "g">>

\* A variant that checks the length before the digits
validate_ean13_code_length_first(code) ==
    IF Len(code) # EanLen
    THEN [ok |-> FALSE, exc |-> ValueError(<<"EAN-13 code must be exactly 12 digits">>)]
    ELSE IF ~isdigit(code)
    THEN [ok |-> FALSE, exc |-> ValueError(<<"EAN-13 code must contain only digits">>)]
    ELSE [ok |-> TRUE, value |-> code]

validate_ean13_code(code) ==
    IF ~isdigit(code)
    THEN [ok |-> FALSE, exc |-> ValueError(<<"EAN-13 code must contain only digits">>)]
    ELSE IF Len(code) # EanLen
    THEN [ok |-> FALSE, exc |-> ValueError(<<"EAN-13 code must be exactly 12 digits">>)]
    ELSE [ok |-> TRUE, value |-> code]

\* The handlers of generate_barcode: a ValueError is raised again as a
\* ValueError, anything else as an Exception, each with a prefix.
EanWrap(e) ==
    IF e.type = "ValueError"
    THEN ValueError(<<"Invalid EAN-13 code: ">> \o e.msg)
    ELSE Exception(<<"Failed to generate barcode: ">> \o e.msg)

\* The writer and the extension chosen for a format
EanWriter(format_type) ==
    IF lower(format_type) = <<"p", "n", "g">>
    THEN [writer |-> "ImageWriter", file_extension |-> <<".", "p", "n", "g">>]
    ELSE [writer |-> "SVGWriter", file_extension |-> <<".", "s", "v", "g">>]

\* argparse: the positional code is required, -f must be one of its choices
EanParseArgs ==
    /\ tool = "ean13_generator" /\ pc = "start"
    /\ IF argv.code = PyNone
       THEN /\ ParserError(<<"the following arguments are required: code">>)
            /\ UNCHANGED args
       ELSE IF argv.format # PyNone /\ argv.format \notin EanFormatChoices
       THEN /\ ParserError(<<"argument -f/--format: invalid choice">>)
            /\ UNCHANGED args
       ELSE /\ args' = [code |-> argv.code,
                        output |-> IF argv.output = PyNone THEN EanDefaultOutput
                                   ELSE argv.output,
                        format |-> IF argv.format = PyNone THEN EanDefaultFormat
                                   ELSE argv.format]
            /\ pc' = "parsed"
            /\ UNCHANGED <<exited, status, stderr>>
    /\ UNCHANGED <<tool, argv, stdout, events, calls, writes, result, rgb, options>>

\* generate_barcode, line 36: validate_ean13_code(code)
EanValidate ==
    /\ tool = "ean13_generator" /\ pc = "parsed"
    /\ events' = Append(events, "validate")
    /\ LET v == validate_ean13_code(args.code)
       IN IF v.ok
          THEN /\ pc' = "validated"
               /\ UNCHANGED <<exited, status, stderr>>
          ELSE MainExcept(EanWrap(v.exc))
    /\ UNCHANGED <<tool, argv, args, stdout, calls, writes, result, rgb, options>>

\* generate_barcode, lines 38-45: the writer, then EAN13(validated_code, writer)
EanEncode ==
    /\ tool = "ean13_generator" /\ pc = "validated"
    /\ events' = Append(events, "delegate")
    /\ calls' = Append(calls, [fn |-> "EAN13",
                               code |-> validate_ean13_code(args.code).value,
                               writer |-> EanWriter(args.format).writer])
    /\ \E r \in LibraryOutcomes :
          IF r.ok
          THEN /\ pc' = "encoded"
               /\ UNCHANGED <<exited, status, stderr>>
          ELSE MainExcept(EanWrap(r.exc))
    /\ UNCHANGED <<tool, argv, args, stdout, writes, result, rgb, options>>

\* generate_barcode, lines 48-53: the extension is removed from output_path,
\* and ean.save writes output_path plus the writer's extension
EanSave ==
    /\ tool = "ean13_generator" /\ pc = "encoded"
    /\ LET stem == with_suffix(args.output, <<>>)
       IN IF ~stem.ok
          THEN /\ MainExcept(EanWrap(stem.exc))
               /\ UNCHANGED <<events, writes, result>>
          ELSE \E r \in LibraryOutcomes :
                  IF r.ok
                  THEN /\ events' = Append(events, "write")
                       /\ writes' = Append(writes,
                                           stem.path \o EanWriter(args.format).file_extension)
                       /\ result' = stem.path \o EanWriter(args.format).file_extension
                       /\ pc' = "saved"
                       /\ UNCHANGED <<exited, status, stderr>>
                  ELSE /\ MainExcept(EanWrap(r.exc))
                       /\ UNCHANGED <<events, writes, result>>
    /\ UNCHANGED <<tool, argv, args, stdout, calls, rgb, options>>

\* main, line 101, and the normal end of the process
EanReport ==
    /\ tool = "ean13_generator" /\ pc = "saved"
    /\ stdout' = Append(stdout, <<"Barcode generated successfully: ">> \o result)
    /\ exited' = TRUE
    /\ status' = 0
    /\ pc' = "exited"
    /\ UNCHANGED <<tool, argv, args, stderr, events, calls, writes, result, rgb, options>>

NextEan == EanParseArgs \/ EanValidate \/ EanEncode \/ EanSave \/ EanReport

(***************************************************************************)
(* barcode_generator.py                                                    *)
(***************************************************************************)
\* Supported barcode types with descriptions
BARCODE_TYPES ==
    (<<"c", "o", "d", "e", "1", "2", "8">>
        :> "Code 128 - High-density linear barcode for alphanumeric data") @@
    (<<"d", "a", "t", "a", "m", "a", "t", "r", "i", "x">>
        :> "Data Matrix - 2D matrix code for small spaces and high data density") @@
    (<<"p", "d", "f", "4", "1", "7">>
        :> "PDF417 - 2D stacked barcode with high data capacity") @@
    (<<"a", "z", "t", "e", "c", "c", "o", "d", "e">>
        :> "Aztec Code - 2D matrix code used in transportation") @@
    (<<"c", "o", "d", "e", "3", "9">>
        :> "Code 39 - Alphanumeric linear barcode") @@
    (<<"c", "o", "d", "e", "9", "3">>
        :> "Code 93 - Compact alphanumeric linear barcode") @@
    (<<"i", "n", "t", "e", "r", "l", "e", "a", "v", "e", "d", "2", "o", "f", "5">>
        :> "Interleaved 2 of 5 - Numeric-only linear barcode") @@
    (<<"q", "r", "c", "o", "d", "e">>
        :> "QR Code - 2D matrix code (use qr_generator.py for more options)") @@
    (<<"u", "p", "c", "a">>
        :> "UPC-A - 12-digit retail barcode") @@
    (<<"e", "a", "n", "1", "3">>
        :> "EAN-13 - 13-digit retail barcode (use ean13_generator.py for more options)") @@
    (<<"m", "a", "x", "i", "c", "o", "d", "e">>
        :> "MaxiCode - Fixed-size 2D code used by UPS") @@
    (<<"c", "o", "d", "a", "b", "l", "o", "c", "k">>
        :> "Codablock F - Stacked linear barcode")

BarDefaultOutput == <<"b", "a", "r", "c", "o", "d", "e">>

\* A variant that compares the type without regard to case
validate_barcode_type_any_case(barcode_type) ==
    IF lower(barcode_type) \notin DOMAIN BARCODE_TYPES
    THEN [ok |-> FALSE,
          exc |-> ValueError(<<"Unsupported barcode type '">> \o barcode_type
                             \o <<"'. Available types: ">>
                             \o join(<<",", " ">>, sorted(DOMAIN BARCODE_TYPES)))]
    ELSE [ok |-> TRUE, value |-> barcode_type]

validate_barcode_type(barcode_type) ==
    IF barcode_type \notin DOMAIN BARCODE_TYPES
    THEN [ok |-> FALSE,
          exc |-> ValueError(<<"Unsupported barcode type '">> \o barcode_type
                             \o <<"'. Available types: ">>
                             \o join(<<",", " ">>, sorted(DOMAIN BARCODE_TYPES)))]
    ELSE [ok |-> TRUE, value |-> barcode_type]

\* The handlers of generate_barcode: a ValueError is raised again with the
\* same text, anything else as an Exception with a prefix.
BarWrap(e) ==
    IF e.type = "ValueError"
    THEN ValueError(e.msg)
    ELSE Exception(<<"Failed to generate barcode: ">> \o e.msg)

\* A dict is a function from its keys; d[k] = v adds or replaces an entry.
DictSet(d, k, v) == [x \in (DOMAIN d) \cup {k} |-> IF x = k THEN v ELSE d[x]]

\* The loop of parse_options over the comma-separated items
RECURSIVE parse_pairs(_, _)
parse_pairs(pairs, d) ==
    IF pairs = <<>> THEN d
    ELSE LET pair == Head(pairs)
         IN IF Contains(pair, "=")
            THEN LET kv == split1(strip(pair), "=")
                 IN parse_pairs(Tail(pairs), DictSet(d, strip(kv[1]), strip(kv[2])))
            ELSE parse_pairs(Tail(pairs), DictSet(d, strip(pair), PyTrue))

\* parse_options: {} for None or '', else one entry per item.  Nothing in the
\* loop raises, so the ValueError of its handler is never produced.
parse_options(options_str) ==
    IF ~Truthy(options_str) THEN <<>>
    ELSE parse_pairs(split(options_str, ","), <<>>)

\* f"{code:15}": the text padded with spaces to 15 characters
Pad15(s) == s \o [i \in 1..(IF Len(s) < 15 THEN 15 - Len(s) ELSE 0) |-> " "]

\* list_barcode_types: a heading, a rule of 50 '=', one line per type in sorted order
list_barcode_types ==
    <<<<"Available barcode types:">>, [i \in 1..50 |-> "="]>>
    \o [i \in 1..Cardinality(DOMAIN BARCODE_TYPES) |->
           LET code == sorted(DOMAIN BARCODE_TYPES)[i]
           IN Pad15(code) \o <<" - ", BARCODE_TYPES[code]>>]

\* The path generate_barcode saves to: '.png' is added when there is no suffix
BarOutputPath(output_path) ==
    IF PathSuffix(output_path) = <<>>
    THEN with_suffix(output_path, <<".", "p", "n", "g">>)
    ELSE [ok |-> TRUE, path |-> PathStr(output_path)]

\* A variant that compares the suffix with '.png' as it is written
BarConvertsToRGB_case_sensitive(path) == PathSuffix(path) = <<".", "p", "n", "g">>

\* Whether the image is converted to RGB before it is saved
BarConvertsToRGB(path) == lower(PathSuffix(path)) = <<".", "p", "n", "g">>

\* A variant that checks the required arguments before --list-types
BarMainPath_required_first(a) ==
    IF ~Truthy(a.data) \/ ~Truthy(a.type) THEN "usage"
    ELSE IF a.list_types THEN "list"
    ELSE "generate"

\* main, lines 165-170: --list-types first, then the required arguments
BarMainPath(a) ==
    IF a.list_types THEN "list"
    ELSE IF ~Truthy(a.data) \/ ~Truthy(a.type) THEN "usage"
    ELSE "generate"

\* main, lines 163-170: parse_args, then --list-types, then the required arguments
BarParseArgs ==
    /\ tool = "barcode_generator" /\ pc = "start"
    /\ args' = [data |-> argv.data,
                type |-> argv.type,
                output |-> IF argv.output = PyNone THEN BarDefaultOutput ELSE argv.output,
                options |-> argv.options,
                list_types |-> argv.list_types]
    /\ IF BarMainPath(args') = "list"
       THEN /\ stdout' = stdout \o list_barcode_types
            /\ exited' = TRUE
            /\ status' = 0
            /\ pc' = "exited"
            /\ UNCHANGED stderr
       ELSE IF BarMainPath(args') = "usage"
       THEN /\ ParserError(<<"Both 'data' and 'type' are required (unless using --list-types)">>)
            /\ UNCHANGED stdout
       ELSE /\ pc' = "parsed"
            /\ UNCHANGED <<exited, status, stdout, stderr>>
    /\ UNCHANGED <<tool, argv, events, calls, writes, result, rgb, options>>

\* main, line 173: options is <<>> until it is set, then <<the dictionary>>
BarParseOptions ==
    /\ tool = "barcode_generator" /\ pc = "parsed"
    /\ options' = <<parse_options(args.options)>>
    /\ pc' = "options"
    /\ UNCHANGED <<tool, argv, args, exited, status, stdout, stderr,
                   events, calls, writes, result, rgb>>

\* generate_barcode, line 50
BarValidate ==
    /\ tool = "barcode_generator" /\ pc = "options"
    /\ events' = Append(events, "validate")
    /\ LET v == validate_barcode_type(args.type)
       IN IF v.ok
          THEN /\ pc' = "validated"
               /\ UNCHANGED <<exited, status, stderr>>
          ELSE MainExcept(BarWrap(v.exc))
    /\ UNCHANGED <<tool, argv, args, stdout, calls, writes, result, rgb, options>>

\* generate_barcode, lines 53-60: treepoem.generate_barcode and the border
BarEncode ==
    /\ tool = "barcode_generator" /\ pc = "validated"
    /\ events' = Append(events, "delegate")
    /\ calls' = Append(calls, [fn |-> "treepoem.generate_barcode",
                               barcode_type |-> validate_barcode_type(args.type).value,
                               data |-> args.data,
                               options |-> options[1]])
    /\ \E r \in LibraryOutcomes :
          IF r.ok
          THEN /\ pc' = "encoded"
               /\ UNCHANGED <<exited, status, stderr>>
          ELSE MainExcept(BarWrap(r.exc))
    /\ UNCHANGED <<tool, argv, args, stdout, writes, result, rgb, options>>

\* generate_barcode, lines 63-73: the path, the conversion, image.save
BarSave ==
    /\ tool = "barcode_generator" /\ pc = "encoded"
    /\ LET p == BarOutputPath(args.output)
       IN IF ~p.ok
          THEN /\ MainExcept(BarWrap(p.exc))
               /\ UNCHANGED <<events, writes, result, rgb>>
          ELSE /\ rgb' = BarConvertsToRGB(p.path)
               /\ \E r \in LibraryOutcomes :
                     IF r.ok
                     THEN /\ events' = Append(events, "write")
                          /\ writes' = Append(writes, p.path)
                          /\ result' = p.path
                          /\ pc' = "saved"
                          /\ UNCHANGED <<exited, status, stderr>>
                     ELSE /\ MainExcept(BarWrap(r.exc))
                          /\ UNCHANGED <<events, writes, result>>
    /\ UNCHANGED <<tool, argv, args, stdout, calls, options>>

\* main, line 182, and the normal end of the process
BarReport ==
    /\ tool = "barcode_generator" /\ pc = "saved"
    /\ stdout' = Append(stdout, <<"Barcode generated successfully: ">> \o result)
    /\ exited' = TRUE
    /\ status' = 0
    /\ pc' = "exited"
    /\ UNCHANGED <<tool, argv, args, stderr, events, calls, writes, result, rgb, options>>

NextBar == BarParseArgs \/ BarParseOptions \/ BarValidate \/ BarEncode \/ BarSave \/ BarReport

(***************************************************************************)
(* qr_generator.py                                                         *)
(***************************************************************************)
QrFormatChoices == {<<"p", "n", "g">>, <<"s", "v", "g">>}

QrErrorCorrectionChoices == {<<"L">>, <<"M">>, <<"Q">>, <<"H">>}

QrDefaultOutput == <<"q", "r", "_", "c", "o", "d", "e">>

QrDefaultFormat == <<"p", "n", "g">>

QrDefaultErrorCorrection == <<"M">>

QrDefaultBoxSize == 10

QrDefaultBorder == 4

QrDefaultFillColor == <<"b", "l", "a", "c", "k">>

QrDefaultBackColor == <<"w", "h", "i", "t", "e">>

\* Whether int(s) succeeds, as argparse's type=int needs: an optional sign and digits
IsIntText(s) ==
    IF s # <<>> /\ Head(s) \in {"-", "+"} THEN isdigit(Tail(s)) ELSE isdigit(s)

\* The number a text of digits stands for
RECURSIVE DigitsValue(_)
DigitsValue(s) ==
    IF s = <<>> THEN 0
    ELSE 10 * DigitsValue(SubSeq(s, 1, Len(s) - 1)) + (Ord(s[Len(s)]) - 1)

\* int(s), for a text that IsIntText accepts
int(s) ==
    IF Head(s) = "-" THEN 0 - DigitsValue(Tail(s))
    ELSE IF Head(s) = "+" THEN DigitsValue(Tail(s))
    ELSE DigitsValue(s)

\* A variant that ignores the level
get_error_correction_level_ignored(level) == "ERROR_CORRECT_M"

\* Map error correction level string to qrcode constant; M when unknown
get_error_correction_level(level) ==
    LET levels == (<<"L">> :> "ERROR_CORRECT_L") @@ (<<"M">> :> "ERROR_CORRECT_M") @@
                  (<<"Q">> :> "ERROR_CORRECT_Q") @@ (<<"H">> :> "ERROR_CORRECT_H")
    IN IF upper(level) \in DOMAIN levels THEN levels[upper(level)] ELSE "ERROR_CORRECT_M"

valid_colors ==
    {<<"b", "l", "a", "c", "k">>, <<"w", "h", "i", "t", "e">>, <<"r", "e", "d">>,
     <<"g", "r", "e", "e", "n">>, <<"b", "l", "u", "e">>, <<"y", "e", "l", "l", "o", "w">>,
     <<"c", "y", "a", "n">>, <<"m", "a", "g", "e", "n", "t", "a">>,
     <<"o", "r", "a", "n", "g", "e">>, <<"p", "u", "r", "p", "l", "e">>,
     <<"b", "r", "o", "w", "n">>, <<"p", "i", "n", "k">>, <<"g", "r", "a", "y">>}

\* One colour passes: a hex colour (starting with #) or a colour name in any case
ColorAccepted(color) == startswith(color, <<"#">>) \/ lower(color) \in valid_colors

\* A variant that accepts every colour
validate_colors_unchecked(fill_color, back_color) == [ok |-> TRUE]

\* A variant that checks the fill colour only
validate_colors_fill_only(fill_color, back_color) ==
    IF ~ColorAccepted(fill_color)
    THEN [ok |-> FALSE, exc |-> ValueError(<<"Invalid fill color: ">> \o fill_color)]
    ELSE [ok |-> TRUE]

\* validate_colors: the fill colour is checked first
validate_colors(fill_color, back_color) ==
    IF ~ColorAccepted(fill_color)
    THEN [ok |-> FALSE, exc |-> ValueError(<<"Invalid fill color: ">> \o fill_color)]
    ELSE IF ~ColorAccepted(back_color)
    THEN [ok |-> FALSE, exc |-> ValueError(<<"Invalid background color: ">> \o back_color)]
    ELSE [ok |-> TRUE]

\* The handler of generate_qr_code: every exception is raised again as an Exception
QrWrap(e) == Exception(<<"Failed to generate QR code: ">> \o e.msg)

\* The image factory and the extension chosen for a format
QrImage(format_type) ==
    IF lower(format_type) = <<"s", "v", "g">>
    THEN [image_factory |-> "SvgPathImage", file_extension |-> <<".", "s", "v", "g">>]
    ELSE [image_factory |-> "PilImage", file_extension |-> <<".", "p", "n", "g">>]

\* The path generate_qr_code saves to: the extension is added unless the text ends with it
QrOutputPath(output_path, file_extension) ==
    IF endswith(PathStr(output_path), file_extension)
    THEN PathStr(output_path)
    ELSE PathStr(output_path) \o file_extension

Default(given, default) == IF given = PyNone THEN default ELSE given

\* argparse: data is required, -f and -e must be among their choices,
\* --box-size and --border must be integers
QrParseArgs ==
    /\ tool = "qr_generator" /\ pc = "start"
    /\ IF argv.data = PyNone
       THEN /\ ParserError(<<"the following arguments are required: data">>)
            /\ UNCHANGED args
       ELSE IF argv.format # PyNone /\ argv.format \notin QrFormatChoices
       THEN /\ ParserError(<<"argument -f/--format: invalid choice">>)
            /\ UNCHANGED args
       ELSE IF argv.error_correction # PyNone
               /\ argv.error_correction \notin QrErrorCorrectionChoices
       THEN /\ ParserError(<<"argument -e/--error-correction: invalid choice">>)
            /\ UNCHANGED args
       ELSE IF argv.box_size # PyNone /\ ~IsIntText(argv.box_size)
       THEN /\ ParserError(<<"argument --box-size: invalid int value">>)
            /\ UNCHANGED args
       ELSE IF argv.border # PyNone /\ ~IsIntText(argv.border)
       THEN /\ ParserError(<<"argument --border: invalid int value">>)
            /\ UNCHANGED args
       ELSE /\ args' = [data |-> argv.data,
                        output |-> Default(argv.output, QrDefaultOutput),
                        format |-> Default(argv.format, QrDefaultFormat),
                        error_correction |->
                            Default(argv.error_correction, QrDefaultErrorCorrection),
                        box_size |-> IF argv.box_size = PyNone THEN QrDefaultBoxSize
                                     ELSE int(argv.box_size),
                        border |-> IF argv.border = PyNone THEN QrDefaultBorder
                                   ELSE int(argv.border),
                        fill_color |-> Default(argv.fill_color, QrDefaultFillColor),
                        back_color |-> Default(argv.back_color, QrDefaultBackColor)]
            /\ pc' = "parsed"
            /\ UNCHANGED <<exited, status, stderr>>
    /\ UNCHANGED <<tool, argv, stdout, events, calls, writes, result, rgb, options>>

\* main, line 164: validate_colors, whose ValueError main reports as it is
QrValidate ==
    /\ tool = "qr_generator" /\ pc = "parsed"
    /\ events' = Append(events, "validate")
    /\ LET v == validate_colors(args.fill_color, args.back_color)
       IN IF v.ok
          THEN /\ pc' = "validated"
               /\ UNCHANGED <<exited, status, stderr>>
          ELSE MainExcept(v.exc)
    /\ UNCHANGED <<tool, argv, args, stdout, calls, writes, result, rgb, options>>

\* generate_qr_code, lines 40-58: QRCode, add_data, make, make_image
QrEncode ==
    /\ tool = "qr_generator" /\ pc = "validated"
    /\ events' = Append(events, "delegate")
    /\ calls' = Append(calls, [fn |-> "qrcode.QRCode",
                               data |-> args.data,
                               error_correction |->
                                   get_error_correction_level(args.error_correction),
                               box_size |-> args.box_size,
                               border |-> args.border,
                               image_factory |-> QrImage(args.format).image_factory,
                               fill_color |-> args.fill_color,
                               back_color |-> args.back_color])
    /\ \E r \in LibraryOutcomes :
          IF r.ok
          THEN /\ pc' = "encoded"
               /\ UNCHANGED <<exited, status, stderr>>
          ELSE MainExcept(QrWrap(r.exc))
    /\ UNCHANGED <<tool, argv, args, stdout, writes, result, rgb, options>>

\* generate_qr_code, lines 61-66: the path, then img.save
QrSave ==
    /\ tool = "qr_generator" /\ pc = "encoded"
    /\ \E r \in LibraryOutcomes :
          IF r.ok
          THEN /\ events' = Append(events, "write")
               /\ writes' = Append(writes,
                                   QrOutputPath(args.output, QrImage(args.format).file_extension))
               /\ result' = QrOutputPath(args.output, QrImage(args.format).file_extension)
               /\ pc' = "saved"
               /\ UNCHANGED <<exited, status, stderr>>
          ELSE /\ MainExcept(QrWrap(r.exc))
               /\ UNCHANGED <<events, writes, result>>
    /\ UNCHANGED <<tool, argv, args, stdout, calls, rgb, options>>

\* main, line 177, and the normal end of the process
QrReport ==
    /\ tool = "qr_generator" /\ pc = "saved"
    /\ stdout' = Append(stdout, <<"QR code generated successfully: ">> \o result)
    /\ exited' = TRUE
    /\ status' = 0
    /\ pc' = "exited"
    /\ UNCHANGED <<tool, argv, args, stderr, events, calls, writes, result, rgb, options>>

NextQr == QrParseArgs \/ QrValidate \/ QrEncode \/ QrSave \/ QrReport

Next == NextEan \/ NextBar \/ NextQr

(***************************************************************************)
(* Command lines                                                           *)
(***************************************************************************)
MaxCodeLen == 13

CodeAlphabet == {"1", "a"}

\* Every code over CodeAlphabet of length at most MaxCodeLen
AllCodes == StringsUpTo(CodeAlphabet, MaxCodeLen)

EanArgvAllCodes ==
    [code : AllCodes \cup {PyNone},
     output : {PyNone, <<"c", "o", "d", "e", ".", "p", "n", "g">>},
     format : {PyNone, <<"p", "n", "g">>, <<"g", "i", "f">>}]

\* Output names: none, plain, with each format's extension, in capitals,
\* dotted, hidden, empty, and with two extensions
OutputNames ==
    {PyNone,
     <<>>,
     <<"c", "o", "d", "e">>,
     <<"c", "o", "d", "e", ".", "p", "n", "g">>,
     <<"c", "o", "d", "e", ".", "s", "v", "g">>,
     <<"c", "o", "d", "e", ".", "P", "N", "G">>,
     <<"a", ".", "b">>,
     <<"a", ".", "b", ".", "p", "n", "g">>,
     <<".", "p", "n", "g">>,
     <<"c", "o", "d", "e", ".", "p", "n", "g", ".", "s", "v", "g">>}

MaxOptLen == 4

OptAlphabet == {"a", "b", "=", ",", " "}

\* Every --options text over OptAlphabet of length at most MaxOptLen
AllOptionStrings == StringsUpTo(OptAlphabet, MaxOptLen)

BarTypes ==
    (DOMAIN BARCODE_TYPES)
    \cup {PyNone, <<>>, <<"C", "O", "D", "E", "1", "2", "8">>, <<"x", "y", "z">>}

\* The positionals fill from the left: a type is given only after data
BarArgvNames ==
    {a \in [data : {PyNone, <<>>, <<"A">>},
            type : BarTypes,
            output : OutputNames,
            options : {PyNone, <<"a", "=", "b">>},
            list_types : BOOLEAN] : a.data = PyNone => a.type = PyNone}

BarArgvOptions ==
    [data : {<<"A">>},
     type : {<<"c", "o", "d", "e", "1", "2", "8">>},
     output : {PyNone},
     options : AllOptionStrings,
     list_types : {FALSE}]

InitBar == \E a \in BarArgvNames \cup BarArgvOptions : Start("barcode_generator", a)

SpecBar == InitBar /\ [][NextBar]_vars

Formats == {PyNone, <<"s", "v", "g">>, <<"p", "n", "g">>, <<"S", "V", "G">>, <<"g", "i", "f">>}

\* Colours: omitted, names in either case, hex, hex-like, unknown, empty
Colors ==
    {PyNone, <<"r", "e", "d">>, <<"R", "e", "d">>, <<"#", "f", "0", "0">>,
     <<"#">>, <<"r", "e", "d", "d">>, <<>>}

Levels == {PyNone, <<"L">>, <<"M">>, <<"Q">>, <<"H">>, <<"l">>, <<"X">>, <<>>}

IntTexts == {PyNone, <<"1", "5">>, <<"-", "1">>, <<"x">>}

\* ean13_generator: a few codes (the one of the help text, 11 and 13 digits,
\* a letter, empty, missing) with every output name and format
EanArgvNames ==
    [code : {PyNone, <<>>,
             <<"1", "2", "3", "4", "5", "6", "7", "8", "9", "0", "1", "2">>,
             <<"1", "2", "3", "4", "5", "6", "7", "8", "9", "0", "1">>,
             <<"1", "2", "3", "4", "5", "6", "7", "8", "9", "0", "1", "2", "8">>,
             <<"1", "2", "3", "4", "5", "6", "7", "8", "9", "0", "1", "x">>},
     output : OutputNames,
     format : Formats]

InitEan == \E a \in EanArgvAllCodes \cup EanArgvNames : Start("ean13_generator", a)

SpecEan == InitEan /\ [][NextEan]_vars

QrArgvNames ==
    [data : {PyNone, <<>>, <<"A">>},
     output : OutputNames,
     format : Formats,
     error_correction : {PyNone},
     box_size : {PyNone},
     border : {PyNone},
     fill_color : {PyNone, <<"r", "e", "d", "d">>},
     back_color : {PyNone}]

QrArgvColors ==
    [data : {<<"A">>},
     output : {PyNone},
     format : {PyNone, <<"s", "v", "g">>},
     error_correction : {PyNone},
     box_size : {PyNone},
     border : {PyNone},
     fill_color : Colors,
     back_color : Colors]

QrArgvLevels ==
    [data : {PyNone, <<"A">>},
     output : {PyNone},
     format : {PyNone, <<"g", "i", "f">>},
     error_correction : Levels,
     box_size : IntTexts,
     border : IntTexts,
     fill_color : {PyNone, <<>>},
     back_color : {PyNone}]

InitQr ==
    \E a \in QrArgvNames \cup QrArgvColors \cup QrArgvLevels : Start("qr_generator", a)

SpecQr == InitQr /\ [][NextQr]_vars

Init == InitEan \/ InitBar \/ InitQr

Spec == Init /\ [][Next]_vars

(***************************************************************************)
(* What a run shows                                                        *)
(***************************************************************************)
SuccessTexts == {"Barcode generated successfully: ", "QR code generated successfully: "}

\* A '... generated successfully' line is on standard output
PrintedSuccess ==
    \E i \in 1..Len(stdout) : Len(stdout[i]) > 0 /\ stdout[i][1] \in SuccessTexts

\* The run ended with a message on standard error and a non-zero exit status
EndedInError == exited /\ Len(stderr) > 0 /\ status # 0

\* The run ended with exit status 0 after reporting the one file it wrote
EndedInSuccess ==
    /\ exited /\ status = 0 /\ Len(stderr) = 0
    /\ Len(writes) = 1
    /\ Len(stdout) = 1
    /\ stdout[1][1] \in SuccessTexts
    /\ SubSeq(stdout[1], 2, Len(stdout[1])) = writes[1]

AllDigits(s) == \A i \in 1..Len(s) : s[i] \in Digits

Given(x) == x # PyNone

Png == <<"p", "n", "g">>

Svg == <<"s", "v", "g">>

DotPng == <<".", "p", "n", "g">>

DotSvg == <<".", "s", "v", "g">>

\* A colour that is neither a '#' value nor one of the 13 names in any case
BadColor(c) == Given(c) /\ ~(c # <<>> /\ c[1] = "#") /\ lower(c) \notin valid_colors

\* The kinds of invalid input, read off the command line
InvalidEanInput ==
    /\ tool = "ean13_generator"
    /\ \/ ~Given(argv.code)
       \/ ~(AllDigits(argv.code) /\ Len(argv.code) = 12)
       \/ Given(argv.format) /\ argv.format \notin {Svg, Png}

InvalidQrInput ==
    /\ tool = "qr_generator"
    /\ \/ ~Given(argv.data)
       \/ Given(argv.format) /\ argv.format \notin {Svg, Png}
       \/ Given(argv.error_correction)
          /\ argv.error_correction \notin {<<"L">>, <<"M">>, <<"Q">>, <<"H">>}
       \/ BadColor(argv.fill_color)
       \/ BadColor(argv.back_color)

UnsupportedType == Truthy(argv.type) /\ argv.type \notin DOMAIN BARCODE_TYPES

MissingPositional == ~Given(argv.data) \/ ~Given(argv.type)

(***************************************************************************)
(* C1                                                                      *)
(***************************************************************************)
\* C1 as stated: every run whose input is invalid (EAN code that is not 12
\* digits, unsupported barcode type, invalid colour, missing required
\* positional argument, option value outside its choices) never prints the
\* success message and ends with an error on standard error and a non-zero
\* exit status.  In barcode_generator data and type are required only
\* without --list-types.
C1_AsStated ==
    (\/ InvalidEanInput
     \/ InvalidQrInput
     \/ tool = "barcode_generator"
        /\ (UnsupportedType \/ (~argv.list_types /\ MissingPositional)))
    => (~PrintedSuccess /\ (exited => EndedInError))

\* C1, amended: the same for every run that does not ask for --list-types.
C1_InvalidInputIsAnError ==
    (\/ InvalidEanInput
     \/ InvalidQrInput
     \/ tool = "barcode_generator" /\ ~argv.list_types
        /\ (UnsupportedType \/ MissingPositional))
    => (~PrintedSuccess /\ (exited => EndedInError))

\* A run of qr_generator with an invalid background colour and nothing else
\* wrong has ended.
C1_Witness ==
    /\ tool = "qr_generator" /\ exited
    /\ BadColor(argv.back_color) /\ ~BadColor(argv.fill_color)
    /\ Given(argv.data) /\ argv.format = Svg /\ ~Given(argv.error_correction)
    /\ status = 1

(***************************************************************************)
(* C2                                                                      *)
(***************************************************************************)
\* C2: in ean13_generator, once validation has run, a code of exactly 12
\* digits goes on to the writer and the library; every other code ends the
\* run with the ValueError of generate_barcode, whose text is the digit
\* message when the code is empty or has a non-digit and the length message
\* otherwise, and no writer is created and no file is saved.
C2_EanAcceptsExactly12Digits ==
    (tool = "ean13_generator" /\ events # <<>>) =>
        IF AllDigits(args.code) /\ Len(args.code) = 12
        THEN pc = "validated" \/ Len(calls) = 1
        ELSE /\ exited /\ status = 1
             /\ calls = <<>> /\ writes = <<>> /\ ~PrintedSuccess
             /\ stderr = << <<"Error: ", "Invalid EAN-13 code: ",
                              IF args.code = <<>> \/ ~AllDigits(args.code)
                              THEN "EAN-13 code must contain only digits"
                              ELSE "EAN-13 code must be exactly 12 digits">> >>

\* A code of 13 digits was rejected.
C2_Witness ==
    /\ tool = "ean13_generator" /\ exited
    /\ events = <<"validate">>
    /\ Len(args.code) = 13 /\ AllDigits(args.code)
    /\ stderr[1][3] = "EAN-13 code must be exactly 12 digits"

(***************************************************************************)
(* C3                                                                      *)
(***************************************************************************)
\* The names listed after 'Available types: ' in an error line
ListedTypes(line) ==
    LET k == CHOOSE i \in 1..Len(line) : line[i] = "'. Available types: "
        items == split(SubSeq(line, k + 1, Len(line)), ",")
    IN [i \in 1..Len(items) |-> strip(items[i])]

\* The type named between the quotes of an error line
NamedType(line) ==
    LET k == CHOOSE i \in 1..Len(line) : line[i] = "'. Available types: "
    IN SubSeq(line, 3, k - 1)

\* C3: in barcode_generator the library is called only with a type that is,
\* letter for letter, one of the 12 keys of BARCODE_TYPES; for any other type
\* the run ends at validation, before any library call or file write, with
\* exit status 1 and one line on standard error that names the type and
\* lists the 12 types in ascending order.
C3_UnsupportedTypeIsRejected ==
    (tool = "barcode_generator" /\ events # <<>>) =>
        /\ Cardinality(DOMAIN BARCODE_TYPES) = 12
        /\ IF args.type \in DOMAIN BARCODE_TYPES
           THEN /\ pc = "validated" \/ Len(calls) = 1
                /\ \A i \in 1..Len(calls) : calls[i].barcode_type = args.type
           ELSE /\ exited /\ status = 1
                /\ calls = <<>> /\ writes = <<>> /\ ~PrintedSuccess
                /\ Len(stderr) = 1
                /\ SubSeq(stderr[1], 1, 2) = <<"Error: ", "Unsupported barcode type '">>
                /\ NamedType(stderr[1]) = args.type
                /\ LET L == ListedTypes(stderr[1])
                   IN /\ Len(L) = 12
                      /\ {L[i] : i \in 1..Len(L)} = DOMAIN BARCODE_TYPES
                      /\ \A i \in 1..(Len(L) - 1) : StrLess(L[i], L[i + 1])

\* The type CODE128, in capitals, was rejected.
C3_Witness ==
    /\ tool = "barcode_generator" /\ exited
    /\ events = <<"validate">>
    /\ args.type = <<"C", "O", "D", "E", "1", "2", "8">>
    /\ status = 1

(***************************************************************************)
(* C4                                                                      *)
(***************************************************************************)
InEnumeration(c) == lower(c) \in valid_colors

IsHex(c) == c # <<>> /\ c[1] = "#"

\* What the run shows when validate_colors rejected the colours
RejectedColors(fill, back, fillOk, backOk) ==
    /\ exited /\ status = 1
    /\ calls = <<>> /\ writes = <<>> /\ ~PrintedSuccess
    /\ stderr = << (IF ~fillOk THEN <<"Error: ", "Invalid fill color: ">> \o fill
                    ELSE <<"Error: ", "Invalid background color: ">> \o back) >>

\* C4 as stated: in qr_generator a fill or background colour is accepted only
\* if it is one of the 13 colour names, compared case-insensitively; every
\* other value is rejected (fill colour first) and no QR code is generated.
C4_AsStated ==
    (tool = "qr_generator" /\ events # <<>>) =>
        /\ Cardinality(valid_colors) = 13
        /\ IF InEnumeration(args.fill_color) /\ InEnumeration(args.back_color)
           THEN pc = "validated" \/ Len(calls) = 1
           ELSE RejectedColors(args.fill_color, args.back_color,
                               InEnumeration(args.fill_color),
                               InEnumeration(args.back_color))

\* C4, amended: a colour is accepted only if it starts with '#' or is one of
\* the 13 colour names, compared case-insensitively; every other value is
\* rejected (fill colour first) and no QR code is generated.
C4_ColorsAreValidated ==
    (tool = "qr_generator" /\ events # <<>>) =>
        /\ Cardinality(valid_colors) = 13
        /\ IF /\ IsHex(args.fill_color) \/ InEnumeration(args.fill_color)
              /\ IsHex(args.back_color) \/ InEnumeration(args.back_color)
           THEN pc = "validated" \/ Len(calls) = 1
           ELSE RejectedColors(args.fill_color, args.back_color,
                               IsHex(args.fill_color) \/ InEnumeration(args.fill_color),
                               IsHex(args.back_color) \/ InEnumeration(args.back_color))

\* A run with a good fill colour and an unknown background colour was rejected.
C4_Witness ==
    /\ tool = "qr_generator" /\ exited
    /\ events = <<"validate">>
    /\ args.fill_color = <<"R", "e", "d">>
    /\ args.back_color = <<"r", "e", "d", "d">>
    /\ stderr[1][2] = "Invalid background color: "

(***************************************************************************)
(* C5                                                                      *)
(***************************************************************************)
\* The qrcode constant of a level letter
LevelConstant(level) ==
    CASE level = <<"L">> -> "ERROR_CORRECT_L"
      [] level = <<"M">> -> "ERROR_CORRECT_M"
      [] level = <<"Q">> -> "ERROR_CORRECT_Q"
      [] level = <<"H">> -> "ERROR_CORRECT_H"

\* C5: in qr_generator a level outside {L, M, Q, H} ends the run with an
\* error and a non-zero exit status and never reaches the library; the
\* library is only ever called with the level that was asked for, M when -e
\* is omitted.
C5_ErrorCorrectionLevel ==
    tool = "qr_generator" =>
        /\ (Given(argv.error_correction)
            /\ argv.error_correction \notin {<<"L">>, <<"M">>, <<"Q">>, <<"H">>})
           => /\ calls = <<>> /\ writes = <<>> /\ ~PrintedSuccess
              /\ pc # "start" => EndedInError
        /\ \A i \in 1..Len(calls) :
              calls[i].error_correction =
                  LevelConstant(IF Given(argv.error_correction)
                                THEN argv.error_correction ELSE <<"M">>)

\* A QR code was generated with level H, as asked.
C5_Witness ==
    /\ tool = "qr_generator" /\ EndedInSuccess
    /\ argv.error_correction = <<"H">>
    /\ calls[1].error_correction = "ERROR_CORRECT_H"

(***************************************************************************)
(* C6                                                                      *)
(***************************************************************************)
\* The extension of the format selected with -f (the tool's default when omitted)
SelectedExtension ==
    IF Given(argv.format) THEN <<".">> \o argv.format
    ELSE IF tool = "ean13_generator" THEN DotSvg ELSE DotPng

\* The extension of the format that was not selected
OtherExtension == IF SelectedExtension = DotSvg THEN DotPng ELSE DotSvg

\* The extension an output name carries: from its last dot, when that dot is
\* neither its first nor its last character
Extension(name) ==
    IF \E i \in 2..(Len(name) - 1) : name[i] = "." /\ \A j \in (i + 1)..Len(name) : name[j] # "."
    THEN LET i == CHOOSE i \in 2..(Len(name) - 1) :
                      name[i] = "." /\ \A j \in (i + 1)..Len(name) : name[j] # "."
         IN SubSeq(name, i, Len(name))
    ELSE <<>>

\* The claim, for the file written by one tool
WrittenNameFollowsFormat(t) ==
    (tool = t /\ Given(argv.output) /\ writes # <<>>) =>
        /\ endswith(writes[1], SelectedExtension)
        /\ result = writes[1]
        /\ Extension(argv.output) = SelectedExtension => writes[1] = argv.output
        /\ Extension(argv.output) = OtherExtension =>
              writes[1] = SubSeq(argv.output, 1, Len(argv.output) - Len(OtherExtension))
                          \o SelectedExtension

\* C6: in the EAN-13 and QR tools the written and reported file name ends
\* with the extension of the selected format; a name given with that
\* extension is left unchanged, and a name given with the other format's
\* extension has it replaced by the selected one.
C6_AsStated ==
    WrittenNameFollowsFormat("ean13_generator") /\ WrittenNameFollowsFormat("qr_generator")

(***************************************************************************)
(* C7                                                                      *)
(***************************************************************************)
\* C7: in barcode_generator the file is written to the output name
\* (default 'barcode') with '.png' appended when the name has no suffix and
\* to the output name unchanged when it has one; the image is converted to
\* RGB exactly when the suffix of the written path is '.png' in any case;
\* the returned and reported string is the written path.
C7_BarcodeOutputPath ==
    (tool = "barcode_generator" /\ writes # <<>>) =>
        LET name == IF Given(argv.output) THEN argv.output
                    ELSE <<"b", "a", "r", "c", "o", "d", "e">>
        IN /\ Len(writes) = 1
           /\ writes[1] = IF Extension(name) = <<>> THEN name \o DotPng ELSE name
           /\ rgb <=> lower(Extension(writes[1])) = DotPng
           /\ result = writes[1]
           /\ exited => EndedInSuccess

\* A file was written to code.PNG, unchanged, after conversion to RGB.
C7_Witness ==
    /\ tool = "barcode_generator" /\ EndedInSuccess
    /\ argv.output = <<"c", "o", "d", "e", ".", "P", "N", "G">>
    /\ writes = <<argv.output>>
    /\ rgb

(***************************************************************************)
(* C8                                                                      *)
(***************************************************************************)
\* C8: in barcode_generator a run with --list-types prints the list (a
\* heading, a rule and one line per type) and ends with exit status 0 with
\* nothing validated, generated or written, whatever data and type are; a
\* run without --list-types whose data or type is missing or empty ends with
\* a usage error and a non-zero exit status before options are parsed or
\* anything is generated.
C8_ListTypesAndUsage ==
    (tool = "barcode_generator" /\ pc # "start") =>
        /\ argv.list_types =>
              /\ exited /\ status = 0 /\ stderr = <<>>
              /\ Len(stdout) = 2 + Cardinality(DOMAIN BARCODE_TYPES)
              /\ stdout[1] = <<"Available barcode types:">>
              /\ \A t \in DOMAIN BARCODE_TYPES :
                    \E i \in 3..Len(stdout) :
                       /\ SubSeq(stdout[i], 1, Len(t)) = t
                       /\ stdout[i][Len(stdout[i])] = BARCODE_TYPES[t]
              /\ events = <<>> /\ calls = <<>> /\ writes = <<>> /\ Len(options) = 0
        /\ (~argv.list_types /\ (~Truthy(argv.data) \/ ~Truthy(argv.type))) =>
              /\ EndedInError /\ stdout = <<>>
              /\ stderr[1][1] = "usage: "
              /\ events = <<>> /\ calls = <<>> /\ writes = <<>> /\ Len(options) = 0

\* A --list-types run without data and type has ended.
C8_Witness ==
    /\ tool = "barcode_generator" /\ exited
    /\ argv.list_types /\ ~Given(argv.data) /\ ~Given(argv.type)
    /\ status = 0 /\ Len(stdout) = 14

(***************************************************************************)
(* C9                                                                      *)
(***************************************************************************)
\* The comma-separated items of an --options text
Items(text) == split(text, ",")

\* The key and the value an item stands for
ItemKey(item) ==
    IF Contains(item, "=") THEN strip(SubSeq(item, 1, Find(item, "=") - 1)) ELSE strip(item)

ItemValue(item) ==
    IF Contains(item, "=") THEN strip(SubSeq(item, Find(item, "=") + 1, Len(item)))
    ELSE PyTrue

\* The result has one entry per item, the last occurrence of a key deciding
C9_EntriesFollowItems ==
    (tool = "barcode_generator" /\ Len(options) = 1) =>
        IF ~Truthy(args.options) THEN DOMAIN options[1] = {}
        ELSE LET items == Items(args.options)
             IN /\ DOMAIN options[1] = {ItemKey(items[i]) : i \in 1..Len(items)}
                /\ \A i \in 1..Len(items) :
                      (\A j \in (i + 1)..Len(items) : ItemKey(items[j]) # ItemKey(items[i]))
                      => options[1][ItemKey(items[i])] = ItemValue(items[i])

\* Every key of the result is non-empty
C9_KeysAreNonEmpty ==
    (tool = "barcode_generator" /\ Len(options) = 1) =>
        \A k \in DOMAIN options[1] : k # <<>>

\* C9: parse_options returns the empty dictionary for a missing or empty
\* text and otherwise one entry per comma-separated item (split at the first
\* '=', both sides trimmed; True without '='; the last occurrence of a key
\* wins), and every key of the result is a non-empty option name.
C9_AsStated == C9_EntriesFollowItems /\ C9_KeysAreNonEmpty

(***************************************************************************)
(* C10                                                                     *)
(***************************************************************************)
\* The run stopped at validation: its error line is a validator's
FailedValidation ==
    /\ exited /\ Len(stderr) = 1 /\ Len(stderr[1]) >= 3
    /\ \/ stderr[1][2] = "Invalid EAN-13 code: "
          /\ stderr[1][3] \in {"EAN-13 code must contain only digits",
                               "EAN-13 code must be exactly 12 digits"}
       \/ stderr[1][2] \in {"Unsupported barcode type '", "Invalid fill color: ",
                            "Invalid background color: "}

\* At most one delegation and one write, each after validation
OneDelegationOneWrite ==
    /\ Len(calls) <= 1 /\ Len(writes) <= 1
    /\ Cardinality({i \in 1..Len(events) : events[i] = "delegate"}) = Len(calls)
    /\ Cardinality({i \in 1..Len(events) : events[i] = "write"}) = Len(writes)
    /\ \A i \in 1..Len(events) :
          events[i] \in {"delegate", "write"} => \E j \in 1..(i - 1) : events[j] = "validate"
    /\ \A i \in 1..Len(events) :
          events[i] = "write" => \E j \in 1..(i - 1) : events[j] = "delegate"
    /\ FailedValidation => (calls = <<>> /\ writes = <<>>)

\* One of the two outcomes, and not both
SuccessOrError ==
    \/ EndedInSuccess /\ ~EndedInError
    \/ EndedInError /\ ~PrintedSuccess /\ ~EndedInSuccess

\* C10 as stated: a run makes at most one delegation and one file write,
\* validation precedes them, a run that fails validation makes neither, and
\* every run ends either with the success message and exit status 0 after
\* exactly one file was written or with an error and a non-zero exit status
\* after no success message.
C10_AsStated == OneDelegationOneWrite /\ (exited => SuccessOrError)

\* C10, amended: the same, the two outcomes being those of every run that
\* does not ask for --list-types.
C10_OneDelegationTwoOutcomes ==
    /\ OneDelegationOneWrite
    /\ (exited /\ ~(tool = "barcode_generator" /\ argv.list_types)) => SuccessOrError

\* A run has ended in success after one validation, one delegation and one write.
C10_Witness ==
    /\ EndedInSuccess
    /\ events = <<"validate", "delegate", "write">>
    /\ Len(calls) = 1

====
